---------------------------- MODULE Spec2Model ----------------------------
(***************************************************************************)
(* A model of the mail gateway helpers (esp/dbmail/mailgate_helpers.py)    *)
(* and of the AdminMorph removal migrations                                *)
(* (esp/program/modules/migrations/0047_remove_adminmorph.py and           *)
(* 0048_remove_adminmorph.py).                                             *)
(*                                                                         *)
(* A Python str is a sequence of one-character strings, so that endswith,  *)
(* split, strip and lower are computed character by character.  Python's   *)
(* None is the one-element tuple <<"None">>, which no str equals.          *)
(***************************************************************************)
EXTENDS Integers, Sequences, FiniteSets, TLC

VARIABLES
    redirects,  \* the PlainRedirect table: a set of rows
    users,      \* the ESPUser table: a set of rows
    call,       \* the helper call made last: [op |-> ..., ...arguments]
    ret,        \* what that call returned or raised
    msg,        \* the EmailMessage handed to build_email_body
    modules,    \* the ProgramModule table: a set of rows
    links,      \* the Program.modules M2M table: a set of <<program, module id>>
    stateFile,  \* the content of .adminmorph_state.json
    applied,    \* whether migration 0047 is recorded as applied
    lastRun,    \* the migration function run last, with the data it found
    applied48,  \* whether migration 0048 is recorded as applied
    removed,    \* history: the programs whose link a forward run deleted and
                \* no later reverse run has put back
    writeFailed \* history: whether some write of the state file has failed

vars == <<redirects, users, call, ret, msg, modules, links, stateFile, applied, lastRun,
          applied48, removed, writeFailed>>

-----------------------------------------------------------------------------
(* Bounds of the model. *)

MaxRecipients == 2
MaxRedirects == 2
MaxUsers == 2
MaxFromLen == 3
MaxAccounts == 2
MaxRoles == 1
MaxContentLen == 2
MaxModules == 2
MaxPrograms == 2
MaxAttachments == 3

-----------------------------------------------------------------------------
(* Python values and str methods. *)

None == <<"None">>

NoCall == [op |-> "none"]
NoReturn == [kind |-> "none"]
NoMessage == [content_type |-> "none", parts |-> <<>>]

Returned(v) == [kind |-> "return", value |-> v]
Raised(e) == [kind |-> "raise", exc |-> e]

\* str.endswith(suffix)
EndsWith(s, suffix) ==
    /\ Len(s) >= Len(suffix)
    /\ SubSeq(s, Len(s) - Len(suffix) + 1, Len(s)) = suffix

\* c in s, for a one-character c
Contains(s, c) == \E i \in 1..Len(s) : s[i] = c

\* s.find(c) + 1: the first position of c in s, 0 when there is none
Find(s, c) ==
    IF Contains(s, c)
    THEN CHOOSE i \in 1..Len(s) : s[i] = c /\ \A j \in 1..(i - 1) : s[j] # c
    ELSE 0

\* s.split(c): the pieces between the occurrences of c, at least one piece
RECURSIVE Split(_, _)
Split(s, c) ==
    LET i == Find(s, c)
    IN IF i = 0
       THEN <<s>>
       ELSE <<SubSeq(s, 1, i - 1)>> \o Split(SubSeq(s, i + 1, Len(s)), c)

IsSpace(c) == c \in {" ", "\t", "\n"}

\* s.strip()
RECURSIVE Strip(_)
Strip(s) ==
    IF s = <<>> THEN s
    ELSE IF IsSpace(s[1]) THEN Strip(Tail(s))
    ELSE IF IsSpace(s[Len(s)]) THEN Strip(SubSeq(s, 1, Len(s) - 1))
    ELSE s

UpperLetters ==
    <<"A", "B", "C", "D", "E", "F", "G", "H", "I", "J", "K", "L", "M",
      "N", "O", "P", "Q", "R", "S", "T", "U", "V", "W", "X", "Y", "Z">>

LowerLetters ==
    <<"a", "b", "c", "d", "e", "f", "g", "h", "i", "j", "k", "l", "m",
      "n", "o", "p", "q", "r", "s", "t", "u", "v", "w", "x", "y", "z">>

\* The lower-case letter of each upper-case letter.
LowerOf ==
    [c \in {UpperLetters[k] : k \in 1..Len(UpperLetters)} |->
        LowerLetters[CHOOSE k \in 1..Len(UpperLetters) : UpperLetters[k] = c]]

LowerChar(c) == IF c \in DOMAIN LowerOf THEN LowerOf[c] ELSE c

\* s.lower()
Lower(s) == [i \in 1..Len(s) |-> LowerChar(s[i])]

\* itertools.chain.from_iterable(ss)
RECURSIVE Flatten(_)
Flatten(ss) == IF ss = <<>> THEN <<>> ELSE Head(ss) \o Flatten(Tail(ss))

\* The sequences over S of length at most n.
SeqsUpTo(S, n) == UNION {[1..k -> S] : k \in 0..n}

\* The rows of a table in primary-key order.
RECURSIVE RowsById(_)
RowsById(rows) ==
    IF rows = {} THEN <<>>
    ELSE LET r == CHOOSE x \in rows : \A y \in rows : x.id <= y.id
         IN <<r>> \o RowsById(rows \ {r})

-----------------------------------------------------------------------------
(* The addresses the model draws from. *)

DOMAIN_ == <<".", "l", "e", "a", "r", "n", "i", "n", "g", "u", ".", "o", "r", "g">>
CustomDomain == <<"c", "u", "s", "t", "o", "m", ".", "o", "r", "g">>
XCom == <<"x", ".", "c", "o", "m">>
SiteHost == <<"s">> \o DOMAIN_

Addr(local, host) == local \o <<"@">> \o host

\* What a caller may pass as recipients: external addresses, aliases in several
\* letter cases, an address of the custom domain, and strings without '@'.
RecipientPool ==
    { Addr(<<"a">>, XCom),
      Addr(<<"a">>, SiteHost),
      Addr(<<"B">>, SiteHost),
      Addr(<<"b">>, CustomDomain),
      SiteHost,
      <<"a", "b">> }

Domains == {DOMAIN_, CustomDomain}

\* PlainRedirect rows that may exist: (original, destination).
RedirectPool ==
    { [id |-> 1, original |-> <<"A">>,
       destination |-> Addr(<<"b">>, XCom) \o <<",", " ">> \o Addr(<<"c">>, SiteHost) \o <<" ">>],
      [id |-> 2, original |-> <<"a">>, destination |-> None],
      [id |-> 3, original |-> <<"b">>, destination |-> <<>>],
      [id |-> 4, original |-> <<"b">>,
       destination |-> Addr(<<"c">>, CustomDomain) \o <<",", " ">> \o Addr(<<"d">>, XCom)],
      [id |-> 5, original |-> <<"c">>, destination |-> Addr(<<"c">>, XCom)] }

\* ESPUser rows that may exist in the recipient pipeline: (username, email).
UserPool ==
    { [id |-> 1, username |-> <<"a">>, email |-> Addr(<<"a">>, XCom),
       groups |-> {}, date_joined |-> 1],
      [id |-> 2, username |-> <<"A">>, email |-> Addr(<<"u">>, SiteHost),
       groups |-> {}, date_joined |-> 2],
      [id |-> 3, username |-> <<"b">>, email |-> Addr(<<"u">>, CustomDomain),
       groups |-> {}, date_joined |-> 3],
      [id |-> 4, username |-> <<"c">>, email |-> Addr(<<"c">>, XCom),
       groups |-> {}, date_joined |-> 4] }

-----------------------------------------------------------------------------
(* filter_recipients, resolve_aliases, resolve_recipients. *)

RECURSIVE FilterLoop(_, _, _)
FilterLoop(recipients, domain, acc) ==
    IF recipients = <<>> THEN acc
    ELSE LET recipient == Head(recipients)
             next == IF EndsWith(recipient, domain)
                     THEN [acc EXCEPT !.aliases = Append(@, recipient)]
                     ELSE IF Contains(recipient, "@")
                     THEN [acc EXCEPT !.real = Append(@, recipient)]
                     ELSE acc
         IN FilterLoop(Tail(recipients), domain, next)

filter_recipients(recipients, domain) ==
    FilterLoop(recipients, domain, [real |-> <<>>, aliases |-> <<>>])

LocalPartsCaseKept(aliases) == [i \in 1..Len(aliases) |-> Split(aliases[i], "@")[1]]

\* [x.split('@')[0].lower() for x in aliases]
LocalParts(aliases) == [i \in 1..Len(aliases) |-> Lower(Split(aliases[i], "@")[1])]

InList(x, list) == \E i \in 1..Len(list) : list[i] = x

\* The PlainRedirect query: original matches a local part, destination neither
\* NULL nor ''.
RedirectQuery(local_parts) ==
    RowsById({r \in redirects :
                /\ InList(Lower(r.original), local_parts)
                /\ r.destination # None
                /\ r.destination # <<>>})

\* The ESPUser query: username matches a local part.
UserQuery(local_parts) ==
    RowsById({u \in users : InList(Lower(u.username), local_parts)})

RedirectAddressesUnsplit(rows) == [i \in 1..Len(rows) |-> rows[i].destination]

\* x.destination.split(',') of every row, chained
RedirectAddresses(rows) ==
    Flatten([i \in 1..Len(rows) |-> Split(rows[i].destination, ",")])

UserAddresses(rows) == [i \in 1..Len(rows) |-> rows[i].email]

KeepResolvedWithoutSuffixTest(address) == address # <<>>

\* The test of the final loop, on a stripped address.
KeepResolved(address) == address # <<>> /\ ~EndsWith(address, DOMAIN_)

RECURSIVE ResolvedLoop(_)
ResolvedLoop(addresses) ==
    IF addresses = <<>> THEN <<>>
    ELSE LET address == Strip(Head(addresses))
         IN (IF KeepResolved(address) THEN <<address>> ELSE <<>>)
            \o ResolvedLoop(Tail(addresses))

resolve_aliases(aliases) ==
    LET local_parts == LocalParts(aliases)
        redirect_addresses == RedirectAddresses(RedirectQuery(local_parts))
        user_addresses == UserAddresses(UserQuery(local_parts))
    IN ResolvedLoop(redirect_addresses \o user_addresses)

ResolveEveryRecipient(recipients, domain) ==
    filter_recipients(recipients, domain).real \o resolve_aliases(recipients)

resolve_recipients(recipients, domain) ==
    LET f == filter_recipients(recipients, domain)
    IN f.real \o resolve_aliases(f.aliases)

-----------------------------------------------------------------------------
(* The tables, as the tests fill them. *)

CreateRedirect ==
    /\ call = NoCall
    /\ Cardinality(redirects) < MaxRedirects
    /\ \E r \in RedirectPool \ redirects : redirects' = redirects \cup {r}
    /\ UNCHANGED <<users, call, ret, msg, modules, links, stateFile, applied, lastRun,
                   applied48, removed, writeFailed>>

\* create_user: usernames are unique.
CreateUser ==
    /\ call = NoCall
    /\ Cardinality(users) < MaxUsers
    /\ \E u \in UserPool :
         /\ \A v \in users : v.username # u.username
         /\ users' = users \cup {u}
    /\ UNCHANGED <<redirects, call, ret, msg, modules, links, stateFile, applied, lastRun,
                   applied48, removed, writeFailed>>

CallFilterRecipients ==
    /\ call = NoCall
    /\ \E recipients \in SeqsUpTo(RecipientPool, MaxRecipients), domain \in Domains :
         /\ call' = [op |-> "filter_recipients", recipients |-> recipients, domain |-> domain]
         /\ ret' = Returned(filter_recipients(recipients, domain))
    /\ UNCHANGED <<redirects, users, msg, modules, links, stateFile, applied, lastRun,
                   applied48, removed, writeFailed>>

CallResolveAliases ==
    /\ call = NoCall
    /\ \E aliases \in SeqsUpTo(RecipientPool, MaxRecipients) :
         /\ call' = [op |-> "resolve_aliases", aliases |-> aliases]
         /\ ret' = Returned(resolve_aliases(aliases))
    /\ UNCHANGED <<redirects, users, msg, modules, links, stateFile, applied, lastRun,
                   applied48, removed, writeFailed>>

CallResolveRecipients ==
    /\ call = NoCall
    /\ \E recipients \in SeqsUpTo(RecipientPool, MaxRecipients), domain \in Domains :
         /\ call' = [op |-> "resolve_recipients", recipients |-> recipients, domain |-> domain]
         /\ ret' = Returned(resolve_recipients(recipients, domain))
    /\ UNCHANGED <<redirects, users, msg, modules, links, stateFile, applied, lastRun,
                   applied48, removed, writeFailed>>

NoMigration == [op |-> "none"]

\* No .adminmorph_state.json on disk.
AbsentFile == [kind |-> "absent"]

InitIdle ==
    /\ redirects = {}
    /\ users = {}
    /\ call = NoCall
    /\ ret = NoReturn
    /\ msg = NoMessage
    /\ modules = {}
    /\ links = {}
    /\ stateFile = AbsentFile
    /\ applied = FALSE
    /\ lastRun = NoMigration
    /\ applied48 = FALSE
    /\ removed = {}
    /\ writeFailed = FALSE

NextRecipients ==
    \/ CreateRedirect
    \/ CreateUser
    \/ CallFilterRecipients
    \/ CallResolveAliases
    \/ CallResolveRecipients

SpecRecipients == InitIdle /\ [][NextRecipients]_vars

-----------------------------------------------------------------------------
(* parse_sender_email. *)

IsBlankHeaderWithoutStrip(addresses) ==
    addresses = <<>> \/ (Len(addresses) = 1 /\ addresses[1] = <<>>)

\* not addresses or (len(addresses) == 1 and not addresses[0].strip())
IsBlankHeader(addresses) ==
    addresses = <<>> \/ (Len(addresses) = 1 /\ Strip(addresses[1]) = <<>>)

MoreThanOneNonBlankSender(addresses) ==
    Cardinality({i \in 1..Len(addresses) : Strip(addresses[i]) # <<>>}) > 1

\* len(addresses) != 1
MoreThanOneSender(addresses) == Len(addresses) # 1

ExtractBetweenFirstBrackets(email_address) ==
    IF Contains(email_address, "<") /\ Contains(email_address, ">")
    THEN SubSeq(email_address, Find(email_address, "<") + 1, Find(email_address, ">") - 1)
    ELSE email_address

\* The address of "Display Name <email>"; the text itself without both brackets.
ExtractAddress(email_address) ==
    IF Contains(email_address, "<") /\ Contains(email_address, ">")
    THEN Split(Split(email_address, "<")[2], ">")[1]
    ELSE email_address

parse_sender_email(from_field) ==
    IF from_field = None \/ from_field = <<>> THEN Returned(None)
    ELSE LET addresses == Split(from_field, ",")
         IN IF IsBlankHeader(addresses) THEN Returned(None)
            ELSE IF MoreThanOneSender(addresses) THEN Raised("AttributeError")
            ELSE Returned(ExtractAddress(Strip(addresses[1])))

HeaderAlphabet == {"a", " ", ",", "<", ">"}

\* '"name" <address>'
QuotedSender(name, address) ==
    <<"\"">> \o name \o <<"\"", " ", "<">> \o address \o <<">">>

\* Display names with a comma, as "Smith, John".
CommaNames == {<<"S", ",", " ", "J">>, <<"S", ",", "J">>}

SenderAddresses == {Addr(<<"j">>, XCom), Addr(<<"a">>, SiteHost)}

\* The From headers of the tests, with shorter names.
TestedHeaders ==
    { Addr(<<"a">>, XCom),
      <<"J", " ", "D", " ", "<">> \o Addr(<<"j">>, XCom) \o <<">">>,
      Addr(<<"a">>, XCom) \o <<",">> \o Addr(<<"b">>, XCom),
      Addr(<<"a">>, XCom) \o <<",", " ">> \o Addr(<<"b">>, XCom),
      <<" ", " ">> \o Addr(<<"a">>, XCom) \o <<" ", " ">> }
    \cup {QuotedSender(n, a) : n \in CommaNames, a \in SenderAddresses}

FromFields == {None} \cup SeqsUpTo(HeaderAlphabet, MaxFromLen) \cup TestedHeaders

CallParseSenderEmail ==
    /\ call = NoCall
    /\ \E from_field \in FromFields :
         /\ call' = [op |-> "parse_sender_email", from_field |-> from_field]
         /\ ret' = parse_sender_email(from_field)
    /\ UNCHANGED <<redirects, users, msg, modules, links, stateFile, applied, lastRun,
                   applied48, removed, writeFailed>>

NextParse == CallParseSenderEmail

SpecParse == InitIdle /\ [][NextParse]_vars

-----------------------------------------------------------------------------
(* lookup_sender. *)

\* EMAIL_HOST_SENDER of the tests: 'test.learningu.org'
HostSender == <<"t", "e", "s", "t">> \o DOMAIN_

RolePriorityStudentFirst ==
    <<"Student", "Administrator", "Teacher", "Volunteer", "Educator">>

\* The group names, in the order the loop tries them.
RolePriority == <<"Administrator", "Teacher", "Volunteer", "Student", "Educator">>

Roles == {RolePriority[i] : i \in 1..Len(RolePriority)}

\* username__iexact / email__iexact
IExact(a, b) == Lower(a) = Lower(b)

SenderMatchesByEmail(email_address, email_host_sender) ==
    {u \in users : IExact(u.email, email_address)}

\* The rows the filter keeps.
SenderMatches(email_address, email_host_sender) ==
    IF EndsWith(email_address, email_host_sender)
    THEN {u \in users : IExact(u.username, Split(email_address, "@")[1])}
    ELSE {u \in users : IExact(u.email, email_address)}

\* order_by('date_joined'): every order of the rows with date_joined ascending.
\* The database is free to return rows of equal date_joined in any order.
OrderedByDateJoined(rows) ==
    {s \in [1..Cardinality(rows) -> rows] :
        /\ \A i, j \in 1..Cardinality(rows) : i # j => s[i] # s[j]
        /\ \A i, j \in 1..Cardinality(rows) : i < j => s[i].date_joined <= s[j].date_joined}

\* [x for x in users if x.groups.filter(name=group_name).exists()]
RECURSIVE GroupUsers(_, _)
GroupUsers(userlist, group_name) ==
    IF userlist = <<>> THEN <<>>
    ELSE (IF group_name \in Head(userlist).groups THEN <<Head(userlist)>> ELSE <<>>)
         \o GroupUsers(Tail(userlist), group_name)

FirstOfGroupLast(group_users) == group_users[Len(group_users)]

\* sender = group_users[0]
FirstOfGroup(group_users) == group_users[1]

\* The loop over the group names, from the k-th on, with the fallback sender.
RECURSIVE GroupLoop(_, _, _)
GroupLoop(userlist, k, sender) ==
    IF k > Len(RolePriority) THEN sender
    ELSE LET group_users == GroupUsers(userlist, RolePriority[k])
         IN IF Len(group_users) > 0
            THEN FirstOfGroup(group_users)
            ELSE GroupLoop(userlist, k + 1, sender)

\* lookup_sender once the query has returned userlist.
SelectSender(userlist) ==
    IF Len(userlist) = 0 THEN None
    ELSE IF Len(userlist) = 1 THEN userlist[1]
    ELSE GroupLoop(userlist, 1, userlist[1])

\* What the tests' create_user may be given: (id, username, email).
AccountPool ==
    { [id |-> 1, username |-> <<"a">>, email |-> Addr(<<"a">>, XCom)],
      [id |-> 2, username |-> <<"A">>, email |-> Addr(<<"A">>, <<"X", ".", "c", "o", "m">>)],
      [id |-> 3, username |-> <<"b">>, email |-> Addr(<<"A">>, HostSender)] }

SenderPool ==
    { Addr(<<"a">>, XCom),
      Addr(<<"A">>, HostSender),
      Addr(<<"b">>, HostSender),
      Addr(<<"c">>, XCom) }

LatestDate == IF users = {} THEN 1
              ELSE CHOOSE d \in {u.date_joined : u \in users} :
                       \A u \in users : u.date_joined <= d

\* create_user: date_joined is the time of the call, which may be the time of
\* the call before it.
CreateAccount ==
    /\ call = NoCall
    /\ Cardinality(users) < MaxAccounts
    /\ \E a \in AccountPool, d \in {LatestDate, LatestDate + 1} :
         /\ \A v \in users : v.username # a.username
         /\ users' = users \cup {[id |-> a.id, username |-> a.username,
                                  email |-> a.email, groups |-> {}, date_joined |-> d]}
    /\ UNCHANGED <<redirects, call, ret, msg, modules, links, stateFile, applied, lastRun,
                   applied48, removed, writeFailed>>

MakeRole ==
    /\ call = NoCall
    /\ \E u \in users, role \in Roles :
         /\ role \notin u.groups
         /\ Cardinality(u.groups) < MaxRoles
         /\ users' = (users \ {u}) \cup {[u EXCEPT !.groups = @ \cup {role}]}
    /\ UNCHANGED <<redirects, call, ret, msg, modules, links, stateFile, applied, lastRun,
                   applied48, removed, writeFailed>>

\* One request looks one sender up; the same lookup may be made again.
CallLookupSender ==
    /\ \E email_address \in SenderPool :
         /\ IF call = NoCall THEN TRUE ELSE call.email_address = email_address
         /\ \E userlist \in OrderedByDateJoined(SenderMatches(email_address, HostSender)) :
                /\ call' = [op |-> "lookup_sender", email_address |-> email_address,
                            email_host_sender |-> HostSender]
                /\ ret' = Returned(SelectSender(userlist))
    /\ UNCHANGED <<redirects, users, msg, modules, links, stateFile, applied, lastRun,
                   applied48, removed, writeFailed>>

NextSender ==
    \/ CreateAccount
    \/ MakeRole
    \/ CallLookupSender

SpecSender == InitIdle /\ [][NextSender]_vars

-----------------------------------------------------------------------------
(* build_email_body. *)

\* An EmailMessage is [content_type |-> the type of the message itself,
\* parts |-> its text parts, each [subtype, content]]; a message that is not
\* multipart has itself as its one part.

\* html.escape(c) for one character
EscapeChar(c) ==
    CASE c = "&" -> <<"&", "a", "m", "p", ";">>
      [] c = "<" -> <<"&", "l", "t", ";">>
      [] c = ">" -> <<"&", "g", "t", ";">>
      [] c = "\"" -> <<"&", "q", "u", "o", "t", ";">>
      [] c = "'" -> <<"&", "#", "x", "2", "7", ";">>
      [] OTHER -> <<c>>

\* html.escape(s)
HtmlEscape(s) == Flatten([i \in 1..Len(s) |-> EscapeChar(s[i])])

\* message.get_body(preferencelist=('html', 'plain')): the html part when
\* there is one, else the plain part.
GetBody(message) ==
    LET html == {i \in 1..Len(message.parts) : message.parts[i].subtype = "html"}
    IN IF html # {}
       THEN message.parts[CHOOSE i \in html : \A j \in html : i <= j]
       ELSE message.parts[1]

\* message.get_content_type() != 'text/html'
NeedsEscape(message) == message.content_type # "text/html"

\* The literal around the content, line by line.
SkeletonHead ==
    << "<html>\n", "  <head>\n", "    <meta charset=\"UTF-8\">\n",
       "    <title>Email Content</title>\n", "  </head>\n", "  <body>\n", "    " >>

SkeletonTail == << "\n", "  </body>\n", "</html>" >>

build_email_body(message) ==
    LET message_content == GetBody(message).content
        content == IF NeedsEscape(message) THEN HtmlEscape(message_content)
                   ELSE message_content
    IN SkeletonHead \o content \o SkeletonTail

ContentAlphabet == {"a", "<", ">", "&", "\"", "'"}

Contents == SeqsUpTo(ContentAlphabet, MaxContentLen)

\* msg.set_content(text, subtype=subtype) on a new EmailMessage
SetContent ==
    /\ msg = NoMessage
    /\ \E text \in Contents, subtype \in {"plain", "html"} :
         msg' = [content_type |-> IF subtype = "html" THEN "text/html" ELSE "text/plain",
                 parts |-> <<[subtype |-> subtype, content |-> text]>>]
    /\ UNCHANGED <<redirects, users, call, ret, modules, links, stateFile, applied, lastRun,
                   applied48, removed, writeFailed>>

\* msg.add_alternative(html_content, subtype='html') on a text/plain message:
\* the message becomes multipart/alternative, its old content the first part.
AddAlternative ==
    /\ msg # NoMessage
    /\ call = NoCall
    /\ msg.content_type = "text/plain"
    /\ \E html_content \in Contents :
         msg' = [content_type |-> "multipart/alternative",
                 parts |-> msg.parts \o <<[subtype |-> "html", content |-> html_content]>>]
    /\ UNCHANGED <<redirects, users, call, ret, modules, links, stateFile, applied, lastRun,
                   applied48, removed, writeFailed>>

CallBuildEmailBody ==
    /\ msg # NoMessage
    /\ call = NoCall
    /\ call' = [op |-> "build_email_body"]
    /\ ret' = Returned(build_email_body(msg))
    /\ UNCHANGED <<redirects, users, msg, modules, links, stateFile, applied, lastRun,
                   applied48, removed, writeFailed>>

NextBody ==
    \/ SetContent
    \/ AddAlternative
    \/ CallBuildEmailBody

SpecBody == InitIdle /\ [][NextBody]_vars

-----------------------------------------------------------------------------
(* extract_attachments. *)

\* A message with attachments is [content_type, parts, attachments]:
\* attachments are the parts msg.iter_attachments() yields, in part order,
\* each [filename, content, mimetype] as get_filename(),
\* get_payload(decode=True) and get_content_type() give them.

HasContentOrEmpty(content) == content # None

\* if content: neither None nor b''
HasContent(content) == content # None /\ content # <<>>

RECURSIVE AttachmentLoop(_)
AttachmentLoop(parts) ==
    IF parts = <<>> THEN <<>>
    ELSE LET part == Head(parts)
             filename == part.filename
             content == part.content
             mimetype == part.mimetype
         IN (IF HasContent(content) THEN << <<filename, content, mimetype>> >> ELSE <<>>)
            \o AttachmentLoop(Tail(parts))

extract_attachments(message) == AttachmentLoop(message.attachments)

\* 'Hello body'
HelloBody == <<"H", "i">>

\* File names: one, another, and none (get_filename() gives None).
Filenames == {<<"a">>, <<"b">>, None}

\* Decoded payloads: bytes, b'', and None, which get_payload(decode=True)
\* gives for a part that is itself multipart.
Payloads == {<<"x">>, <<>>, None}

Mimetypes == {"text/plain", "application/pdf"}

\* msg = EmailMessage(); msg.set_content('Hello body')
MakeMessage ==
    /\ msg = NoMessage
    /\ msg' = [content_type |-> "text/plain",
               parts |-> <<[subtype |-> "plain", content |-> HelloBody]>>,
               attachments |-> <<>>]
    /\ UNCHANGED <<redirects, users, call, ret, modules, links, stateFile, applied, lastRun,
                   applied48, removed, writeFailed>>

\* msg.add_attachment(content, maintype=..., subtype=..., filename=...): the
\* message becomes multipart/mixed and the attachment its last part.
AddAttachment ==
    /\ msg # NoMessage
    /\ call = NoCall
    /\ Len(msg.attachments) < MaxAttachments
    /\ \E filename \in Filenames, content \in Payloads, mimetype \in Mimetypes :
         msg' = [msg EXCEPT !.content_type = "multipart/mixed",
                            !.attachments = Append(@, [filename |-> filename,
                                                       content |-> content,
                                                       mimetype |-> mimetype])]
    /\ UNCHANGED <<redirects, users, call, ret, modules, links, stateFile, applied, lastRun,
                   applied48, removed, writeFailed>>

CallExtractAttachments ==
    /\ msg # NoMessage
    /\ call = NoCall
    /\ call' = [op |-> "extract_attachments"]
    /\ ret' = Returned(extract_attachments(msg))
    /\ UNCHANGED <<redirects, users, msg, modules, links, stateFile, applied, lastRun,
                   applied48, removed, writeFailed>>

NextAttachments ==
    \/ MakeMessage
    \/ AddAttachment
    \/ CallExtractAttachments

SpecAttachments == InitIdle /\ [][NextAttachments]_vars

-----------------------------------------------------------------------------
(* Migration 0047: remove_adminmorph_programmodule and its reverse. *)

Programs == 1..MaxPrograms

Handlers == {"AdminMorph", "OtherModule"}

\* The ProgramModule tables the migration may find, duplicate AdminMorph rows
\* included.
ModuleTables ==
    {t \in SUBSET [id : 1..MaxModules, handler : Handlers] :
        \A m, n \in t : m.id = n.id => m = n}

\* A file that open(..., 'w') created or emptied and json.dump did not fill:
\* json.load raises ValueError on it.
TruncatedFile == [kind |-> "truncated"]

JsonFile(ids) == [kind |-> "json", program_ids |-> ids]

\* A file that open() cannot read: OSError.
UnreadableFile == [kind |-> "unreadable"]

\* A JSON object without the key 'program_ids', as {}.
ObjectWithoutIds == [kind |-> "object"]

\* JSON that is not an object, as [1, 2]: json.load returns a list.
NotAnObject == [kind |-> "not_object"]

\* ProgramModule.objects.filter(handler='AdminMorph')
AdminMorphRows == {m \in modules : m.handler = "AdminMorph"}

SeenIdsOfOneRow(rows) ==
    IF rows = {} THEN {}
    ELSE LET am_module == CHOOSE m \in rows : \A n \in rows : m.id <= n.id
         IN {l[1] : l \in {x \in links : x[2] = am_module.id}}

\* The programs linked to one of the rows.
SeenIds(rows) == {l[1] : l \in {x \in links : \E m \in rows : x[2] = m.id}}

\* sorted(seen_ids)
RECURSIVE Sorted(_)
Sorted(S) ==
    IF S = {} THEN <<>>
    ELSE LET x == CHOOSE y \in S : \A z \in S : y <= z
         IN <<x>> \o Sorted(S \ {x})

\* What the write leaves on disk: "ok" the dumped object, "open_fails" what
\* was there, "dump_fails" an opened and unfilled file.
FileAfterWrite(outcome, ids) ==
    CASE outcome = "ok" -> JsonFile(ids)
      [] outcome = "open_fails" -> stateFile
      [] outcome = "dump_fails" -> TruncatedFile

ReraisesNever(outcome, ids) == FALSE

\* except OSError: if ids: raise
Reraises(outcome, ids) == outcome # "ok" /\ ids # <<>>

\* adminmorph_qs.delete(), with its cascade to Program.modules
LinksAfterDelete(rows) == {l \in links : \A m \in rows : l[2] # m.id}

Forward47 ==
    /\ ~applied
    /\ \E outcome \in {"ok", "open_fails", "dump_fails"} :
         LET rows == AdminMorphRows
             ids == Sorted(SeenIds(rows))
         IN /\ stateFile' = FileAfterWrite(outcome, ids)
            /\ writeFailed' = (writeFailed \/ outcome # "ok")
            /\ IF Reraises(outcome, ids)
               THEN /\ UNCHANGED <<modules, links, applied, removed>>
                    /\ lastRun' = [op |-> "forward", write |-> outcome, raised |-> TRUE,
                                   modules |-> modules, links |-> links,
                                   file |-> stateFile, after |-> NoMigration]
               ELSE /\ modules' = modules \ rows
                    /\ links' = LinksAfterDelete(rows)
                    /\ applied' = TRUE
                    /\ removed' = removed \cup SeenIds(rows)
                    /\ lastRun' = [op |-> "forward", write |-> outcome, raised |-> FALSE,
                                   modules |-> modules, links |-> links,
                                   file |-> stateFile, after |-> NoMigration]
    /\ UNCHANGED <<redirects, users, call, ret, msg, applied48>>

\* The id the database gives a new ProgramModule row.
NewModuleId ==
    IF modules = {} THEN 1
    ELSE 1 + CHOOSE i \in {m.id : m \in modules} : \A m \in modules : m.id <= i

\* json.load and data.get('program_ids', []), [] after OSError or ValueError
IdsToRestore ==
    IF stateFile.kind = "json" THEN stateFile.program_ids ELSE <<>>

\* data.get on what json.load returned: AttributeError when that is no dict,
\* which except (OSError, ValueError) lets through.
ReadRaises == stateFile.kind = "not_object"

\* The run of remove_adminmorph_programmodule that the reverse run undoes,
\* when it was the run before.
RunBefore == IF lastRun.op = "forward" THEN lastRun ELSE NoMigration

\* os.remove raises OSError, which is passed over, when there is no file.
Reverse47 ==
    /\ applied
    /\ Cardinality(AdminMorphRows) <= 1
    /\ IF ReadRaises
       THEN /\ UNCHANGED <<modules, links, stateFile, applied, removed>>
            /\ lastRun' = [op |-> "reverse", write |-> "none", raised |-> TRUE,
                           modules |-> modules, links |-> links,
                           file |-> stateFile, after |-> RunBefore]
       ELSE LET am == IF AdminMorphRows = {}
                      THEN [id |-> NewModuleId, handler |-> "AdminMorph"]
                      ELSE CHOOSE m \in AdminMorphRows : TRUE
                ids_to_restore == IdsToRestore
                programs == {ids_to_restore[k] : k \in 1..Len(ids_to_restore)} \cap Programs
            IN /\ modules' = modules \cup {am}
               /\ links' = links \cup {<<program, am.id>> : program \in programs}
               /\ removed' = removed \ programs
               /\ lastRun' = [op |-> "reverse", write |-> "none", raised |-> FALSE,
                              modules |-> modules, links |-> links,
                              file |-> stateFile, after |-> RunBefore]
               /\ stateFile' = AbsentFile
               /\ applied' = FALSE
    /\ UNCHANGED <<redirects, users, call, ret, msg, applied48, writeFailed>>

InitMigration ==
    /\ redirects = {}
    /\ users = {}
    /\ call = NoCall
    /\ ret = NoReturn
    /\ msg = NoMessage
    /\ modules \in ModuleTables
    /\ links \in SUBSET (Programs \X {m.id : m \in modules})
    /\ stateFile = AbsentFile
    /\ applied = FALSE
    /\ lastRun = NoMigration
    /\ applied48 = FALSE
    /\ removed = {}
    /\ writeFailed = FALSE

NextMigration ==
    \/ Forward47
    \/ Reverse47

SpecMigration == InitMigration /\ [][NextMigration]_vars

\* What may lie at _STATE_FILE that no run of the migration wrote: nothing, or
\* a file that cannot be read, is not JSON, or is JSON of another shape.
ForeignFiles == {AbsentFile, UnreadableFile, TruncatedFile, ObjectWithoutIds, NotAnObject}

\* The file is removed, replaced or made unreadable between two runs.
DamageStateFile ==
    /\ \E f \in ForeignFiles :
         /\ f # stateFile
         /\ stateFile' = f
    /\ UNCHANGED <<redirects, users, call, ret, msg, modules, links, applied, lastRun,
                   applied48, removed, writeFailed>>

NextStateFile ==
    \/ Forward47
    \/ Reverse47
    \/ DamageStateFile

SpecStateFile == InitMigration /\ [][NextStateFile]_vars

-----------------------------------------------------------------------------
(* Migration 0048: remove_adminmorph_programmodule, reversed by a no-op. *)

\* ProgramModule.objects.filter(handler='AdminMorph').delete()
Forward48 ==
    /\ ~applied48
    /\ LET rows == AdminMorphRows
       IN /\ modules' = modules \ rows
          /\ links' = LinksAfterDelete(rows)
          /\ removed' = removed \cup SeenIds(rows)
          /\ lastRun' = [op |-> "forward48", write |-> "none", raised |-> FALSE,
                         modules |-> modules, links |-> links,
                         file |-> stateFile, after |-> NoMigration]
    /\ applied48' = TRUE
    /\ UNCHANGED <<redirects, users, call, ret, msg, stateFile, applied, writeFailed>>

\* migrations.RunPython.noop
Reverse48 ==
    /\ applied48
    /\ applied48' = FALSE
    /\ lastRun' = [op |-> "reverse48", write |-> "none", raised |-> FALSE,
                   modules |-> modules, links |-> links,
                   file |-> stateFile, after |-> NoMigration]
    /\ UNCHANGED <<redirects, users, call, ret, msg, modules, links, stateFile, applied,
                   removed, writeFailed>>

NextMigrations ==
    \/ Forward47
    \/ Reverse47
    \/ Forward48
    \/ Reverse48

SpecMigrations == InitMigration /\ [][NextMigrations]_vars

-----------------------------------------------------------------------------
(* Claims about the recipient pipeline, checked under SpecRecipients. *)

\* The comma-separated pieces of the destinations of the redirects that match
\* one of the aliases.
MatchingPieces(aliases) ==
    LET rows == RedirectQuery(LocalParts(aliases))
    IN {p \in UNION {{Split(r.destination, ",")[i] : i \in 1..Len(Split(r.destination, ","))}
                       : r \in {rows[k] : k \in 1..Len(rows)}} : TRUE}

\* C1: no address returned by resolve_aliases ends with '.learningu.org',
\* whatever redirects and users exist.
C1_NoInternalAddressResolved ==
    call.op = "resolve_aliases" =>
        \A i \in 1..Len(ret.value) : ~EndsWith(ret.value[i], DOMAIN_)

\* A call that resolved something while a matching redirect piece was internal
\* only after stripping, and a matching user's email was internal.
C1_Witness ==
    /\ call.op = "resolve_aliases"
    /\ ret.value # <<>>
    /\ \E p \in MatchingPieces(call.aliases) :
         EndsWith(Strip(p), DOMAIN_) /\ ~EndsWith(p, DOMAIN_)
    /\ \E u \in users :
         /\ InList(Lower(u.username), LocalParts(call.aliases))
         /\ EndsWith(u.email, DOMAIN_)

\* C2: no address returned by resolve_recipients(recipients, domain) ends with
\* the domain suffix that was passed.
C2_NoAddressOfPassedDomain ==
    call.op = "resolve_recipients" =>
        \A i \in 1..Len(ret.value) : ~EndsWith(ret.value[i], call.domain)

\* The elements of s at the positions where class[i] = c, in order.
RECURSIVE OfClass(_, _, _)
OfClass(s, class, c) ==
    IF s = <<>> THEN <<>>
    ELSE (IF Head(class) = c THEN <<Head(s)>> ELSE <<>>)
         \o OfClass(Tail(s), Tail(class), c)

\* C3: filter_recipients puts each input address in exactly one of real,
\* alias and dropped, keeps the input order within each list, and drops every
\* address without '@'.
C3_PartitionDropsAddressesWithoutAt ==
    call.op = "filter_recipients" =>
        \E class \in [1..Len(call.recipients) -> {"real", "alias", "dropped"}] :
            /\ ret.value.real = OfClass(call.recipients, class, "real")
            /\ ret.value.aliases = OfClass(call.recipients, class, "alias")
            /\ \A i \in 1..Len(call.recipients) :
                 ~Contains(call.recipients[i], "@") => class[i] = "dropped"

\* The redirects whose original is, but for letter case, the text before the
\* '@' of one of the aliases.
MatchingRedirects(aliases) ==
    {r \in redirects :
        \E i \in 1..Len(aliases) : Lower(r.original) = Lower(Split(aliases[i], "@")[1])}

HasDestination(r) == r.destination # None /\ r.destination # <<>>

\* The stripped comma-separated pieces of a destination.
StrippedPieces(destination) ==
    {Strip(Split(destination, ",")[i]) : i \in 1..Len(Split(destination, ","))}

External(address) == address # <<>> /\ ~EndsWith(address, DOMAIN_)

\* C14: resolve_aliases returns every external address, stripped, of the
\* comma-separated destination of every redirect that matches an alias, and
\* returns nothing on account of a redirect whose destination is null or
\* empty: each address returned is such a piece or a matching user's email.
C14_DestinationsExpanded ==
    call.op = "resolve_aliases" =>
        /\ \A r \in MatchingRedirects(call.aliases) :
             HasDestination(r) =>
                 \A a \in StrippedPieces(r.destination) :
                     External(a) => InList(a, ret.value)
        /\ \A i \in 1..Len(ret.value) :
             \/ \E r \in MatchingRedirects(call.aliases) :
                  HasDestination(r) /\ ret.value[i] \in StrippedPieces(r.destination)
             \/ \E u \in users :
                  /\ \E k \in 1..Len(call.aliases) :
                       Lower(u.username) = Lower(Split(call.aliases[k], "@")[1])
                  /\ ret.value[i] = Strip(u.email)

\* An alias in upper case matched a redirect with an empty destination and a
\* redirect with two external addresses, one after a blank; both were returned.
C14_Witness ==
    /\ call.op = "resolve_aliases"
    /\ \E r \in MatchingRedirects(call.aliases) : ~HasDestination(r)
    /\ \E r \in MatchingRedirects(call.aliases) :
         /\ HasDestination(r)
         /\ Len(Split(r.destination, ",")) = 2
         /\ \A a \in StrippedPieces(r.destination) : External(a) /\ InList(a, ret.value)
         /\ Strip(Split(r.destination, ",")[2]) # Split(r.destination, ",")[2]
         /\ \E i \in 1..Len(call.aliases) :
              /\ Lower(r.original) = Lower(Split(call.aliases[i], "@")[1])
              /\ r.original # Split(call.aliases[i], "@")[1]

\* The lower-cased texts before the '@' of the aliases, as a set.
LocalPartSet(aliases) ==
    {Lower(Split(aliases[i], "@")[1]) : i \in 1..Len(aliases)}

\* One list for each set of local parts: its elements, each once, in an order
\* that the set alone fixes.
OneList(S) ==
    CHOOSE l \in [1..Cardinality(S) -> S] : \A i, j \in 1..Cardinality(S) : i # j => l[i] # l[j]

\* How often x occurs in s.
Count(s, x) == Cardinality({i \in 1..Len(s) : s[i] = x})

\* The same addresses, each as often in s as in t.
SameAddresses(s, t) ==
    \A x \in {s[i] : i \in 1..Len(s)} \cup {t[i] : i \in 1..Len(t)} :
        Count(s, x) = Count(t, x)

\* The external pieces of the redirects that match, one for each redirect
\* and position in its destination.
RedirectContributions(aliases) ==
    UNION { {<<r.id, i>> : i \in {k \in 1..Len(Split(r.destination, ",")) :
                                    External(Strip(Split(r.destination, ",")[k]))}}
            : r \in {m \in MatchingRedirects(aliases) : HasDestination(m)} }

\* The users that match and have an external email.
UserContributions(aliases) ==
    {u \in users : Lower(u.username) \in LocalPartSet(aliases) /\ External(Strip(u.email))}

\* C19: resolve_aliases returns for an alias list the addresses, each as
\* often, that it returns for the one list made of the set of its lower-cased
\* local parts, so that alias lists with the same set return the same; every
\* matching redirect piece and every matching user is there once, the
\* redirects' addresses before the users'.
C19_OnlyLocalPartsMatter ==
    call.op = "resolve_aliases" =>
        /\ SameAddresses(resolve_aliases(OneList(LocalPartSet(call.aliases))), ret.value)
        /\ LET k == Cardinality(RedirectContributions(call.aliases))
           IN /\ Len(ret.value) = k + Cardinality(UserContributions(call.aliases))
              /\ \A j \in 1..Len(ret.value) :
                   IF j <= k
                   THEN \E r \in MatchingRedirects(call.aliases) :
                            HasDestination(r) /\ ret.value[j] \in StrippedPieces(r.destination)
                   ELSE \E u \in UserContributions(call.aliases) : ret.value[j] = Strip(u.email)

\* Two aliases that differ in letter case and in domain and share the local
\* part; a redirect and a user match it; the redirect's address is returned
\* before the user's, each once.
C19_Witness ==
    /\ call.op = "resolve_aliases"
    /\ Len(call.aliases) = 2
    /\ Split(call.aliases[1], "@")[1] # Split(call.aliases[2], "@")[1]
    /\ Cardinality(LocalPartSet(call.aliases)) = 1
    /\ Cardinality(RedirectContributions(call.aliases)) >= 1
    /\ Cardinality(UserContributions(call.aliases)) = 1
    /\ Len(ret.value) = Cardinality(RedirectContributions(call.aliases)) + 1
    /\ \E u \in UserContributions(call.aliases) : ret.value[Len(ret.value)] = u.email

\* C13 as stated: resolve_recipients returns the list it was given, the
\* empty one included, when no element of it ends with the domain suffix.
C13_NonAliasListReturned ==
    (/\ call.op = "resolve_recipients"
     /\ \A i \in 1..Len(call.recipients) : ~EndsWith(call.recipients[i], call.domain))
        => ret.value = call.recipients

\* C13, amended: resolve_recipients returns the list it was given, the empty
\* one included, when every element of it holds an '@' and none ends with the
\* domain suffix, whatever redirects and users exist.
C13_AddressListReturned ==
    (/\ call.op = "resolve_recipients"
     /\ \A i \in 1..Len(call.recipients) :
          /\ ~EndsWith(call.recipients[i], call.domain)
          /\ Contains(call.recipients[i], "@"))
        => ret.value = call.recipients

\* Two addresses passed through although a redirect and a user match the local
\* part of one of them.
C13_Witness ==
    /\ call.op = "resolve_recipients"
    /\ Len(call.recipients) = 2
    /\ call.recipients[1] # call.recipients[2]
    /\ \A i \in 1..2 :
          /\ ~EndsWith(call.recipients[i], call.domain)
          /\ Contains(call.recipients[i], "@")
    /\ RedirectQuery(LocalParts(call.recipients)) # <<>>
    /\ UserQuery(LocalParts(call.recipients)) # <<>>
    /\ ret.value = call.recipients

-----------------------------------------------------------------------------
(* Claims about parse_sender_email, checked under SpecParse. *)

Candidate == Strip(call.from_field)

OneCandidate ==
    /\ call.op = "parse_sender_email"
    /\ call.from_field # None
    /\ ~Contains(call.from_field, ",")
    /\ Candidate # <<>>

\* C16 as stated: for one candidate with both '<' and '>' parse_sender_email
\* returns the text between the first '<' and the first '>' of the trimmed
\* candidate, and for a candidate without one of them the trimmed candidate.
C16_BetweenFirstBrackets ==
    OneCandidate =>
        IF Contains(Candidate, "<") /\ Contains(Candidate, ">")
        THEN ret = Returned(SubSeq(Candidate, Find(Candidate, "<") + 1,
                                   Find(Candidate, ">") - 1))
        ELSE ret = Returned(Candidate)

\* The text of s before its first '<' or '>', all of s when it has neither.
UpToBracket(s) ==
    IF \E i \in 1..Len(s) : s[i] \in {"<", ">"}
    THEN SubSeq(s, 1, (CHOOSE i \in 1..Len(s) :
                          /\ s[i] \in {"<", ">"}
                          /\ \A j \in 1..(i - 1) : s[j] \notin {"<", ">"}) - 1)
    ELSE s

\* C16, amended: for one candidate with both '<' and '>' parse_sender_email
\* returns the text that follows the first '<' of the trimmed candidate, up
\* to the next '<' or '>' or to the end; for a candidate without one of them
\* it returns the trimmed candidate.
C16_AfterFirstOpeningBracket ==
    OneCandidate =>
        IF Contains(Candidate, "<") /\ Contains(Candidate, ">")
        THEN ret = Returned(UpToBracket(SubSeq(Candidate, Find(Candidate, "<") + 1,
                                               Len(Candidate))))
        ELSE ret = Returned(Candidate)

\* A candidate whose first '>' comes before its first '<', and text after the
\* '<' was returned.
C16_Witness ==
    /\ OneCandidate
    /\ Contains(Candidate, "<")
    /\ Contains(Candidate, ">")
    /\ Find(Candidate, ">") < Find(Candidate, "<")
    /\ ret.kind = "return"
    /\ ret.value # <<>>

\* C7: for one sender whose quoted display name holds a comma, followed by one
\* address in angle brackets, parse_sender_email returns that address.
C7_QuotedCommaNameParsed ==
    \A n \in CommaNames, a \in SenderAddresses :
        (call.op = "parse_sender_email" /\ call.from_field = QuotedSender(n, a))
            => ret = Returned(a)

\* C8: parse_sender_email returns None, and raises nothing, for an absent, an
\* empty and an all-whitespace header.
C8_BlankHeaderIsNoSender ==
    (/\ call.op = "parse_sender_email"
     /\ \/ call.from_field = None
        \/ \A i \in 1..Len(call.from_field) : IsSpace(call.from_field[i]))
        => ret = Returned(None)

\* A header of several spaces, which the split leaves as one blank piece.
C8_Witness ==
    /\ call.op = "parse_sender_email"
    /\ call.from_field # None
    /\ Len(call.from_field) >= 2
    /\ \A i \in 1..Len(call.from_field) : IsSpace(call.from_field[i])
    /\ ret = Returned(None)

-----------------------------------------------------------------------------
(* Claims about lookup_sender, checked under SpecSender. *)

\* The accounts among rows whose date_joined is the earliest among rows.
Earliest(rows) == {u \in rows : \A v \in rows : u.date_joined <= v.date_joined}

\* Whether role is the first of the five, in the documented order, that some
\* account of rows holds.
IsFirstTier(role, rows) ==
    \E k \in 1..5 :
        /\ <<"Administrator", "Teacher", "Volunteer", "Student", "Educator">>[k] = role
        /\ \E u \in rows : role \in u.groups
        /\ \A j \in 1..(k - 1) : \A u \in rows :
             <<"Administrator", "Teacher", "Volunteer", "Student", "Educator">>[j] \notin u.groups

\* C4: with more than one matching account, lookup_sender returns an
\* earliest-created account of the first role of Administrator, Teacher,
\* Volunteer, Student, Educator that a matching account holds, and with no
\* such role an earliest-created matching account.
C4_RolePriorityThenEarliest ==
    call.op = "lookup_sender" =>
        LET rows == SenderMatches(call.email_address, call.email_host_sender)
        IN Cardinality(rows) > 1 =>
             /\ \A role \in Roles :
                  IsFirstTier(role, rows) =>
                      ret.value \in Earliest({u \in rows : role \in u.groups})
             /\ (\A u \in rows : u.groups \cap Roles = {}) =>
                  ret.value \in Earliest(rows)

\* Two matching accounts, the later-created one in a role that comes before
\* the role of the earlier one, and the later one returned.
C4_Witness ==
    /\ call.op = "lookup_sender"
    /\ LET rows == SenderMatches(call.email_address, call.email_host_sender)
       IN /\ Cardinality(rows) > 1
          /\ \E u \in rows :
               /\ "Student" \in u.groups
               /\ ret.value # u
               /\ u.date_joined < ret.value.date_joined
               /\ "Teacher" \in ret.value.groups

\* The accounts the documented rule selects: by username against the text
\* before the '@' when the address ends with the sending domain, by email
\* against the whole address otherwise, letter case aside.
Candidates ==
    IF EndsWith(call.email_address, call.email_host_sender)
    THEN {u \in users : Lower(u.username) = Lower(Split(call.email_address, "@")[1])}
    ELSE {u \in users : Lower(u.email) = Lower(call.email_address)}

IsNone(v) == ToString(v) = ToString(None)

\* C17: lookup_sender returns None exactly when no account is selected by the
\* rule, and otherwise returns one of the selected accounts.
C17_SenderIsCandidate ==
    call.op = "lookup_sender" =>
        /\ IsNone(ret.value) <=> Candidates = {}
        /\ ~IsNone(ret.value) => ret.value \in Candidates

\* An address of the sending domain, an account whose email is that address
\* and whose username is not its local part, and another account returned,
\* whose username differs from the local part in letter case only.
C17_Witness ==
    /\ call.op = "lookup_sender"
    /\ EndsWith(call.email_address, call.email_host_sender)
    /\ \E u \in users : u.email = call.email_address /\ u \notin Candidates
    /\ ~IsNone(ret.value)
    /\ ret.value \in Candidates
    /\ ret.value.username # Split(call.email_address, "@")[1]
    /\ ret.value.email # call.email_address

\* C5: two calls of lookup_sender with the same address on the same accounts
\* return the same result.
C5_SameCallSameSender ==
    [][(/\ call.op = "lookup_sender"
        /\ call'.op = "lookup_sender"
        /\ call' = call
        /\ users' = users) => ret' = ret]_vars

-----------------------------------------------------------------------------
(* Claims about build_email_body, checked under SpecBody. *)

\* C9: build_email_body embeds the preferred body as it is when that body is
\* HTML, also in a message with a plain part and an HTML alternative, and
\* HTML-escaped when it is not, in both cases inside the fixed skeleton.
C9_HtmlBodyEmbeddedUnescaped ==
    call.op = "build_email_body" =>
        LET body == GetBody(msg)
        IN ret.value = SkeletonHead
                       \o (IF body.subtype = "html" THEN body.content
                           ELSE HtmlEscape(body.content))
                       \o SkeletonTail

-----------------------------------------------------------------------------
(* Claims about extract_attachments, checked under SpecAttachments. *)

\* The positions of the attachments with content that is neither absent nor
\* empty, in ascending order.
RECURSIVE FilledPositions(_, _)
FilledPositions(attachments, i) ==
    IF i > Len(attachments) THEN <<>>
    ELSE (IF attachments[i].content \notin {None, <<>>} THEN <<i>> ELSE <<>>)
         \o FilledPositions(attachments, i + 1)

\* C15: extract_attachments returns one (filename, content, mimetype) triple
\* for each attachment whose decoded content is not empty, in the order of the
\* parts, and none for an attachment whose content is empty or absent.
C15_OneTriplePerFilledAttachment ==
    call.op = "extract_attachments" =>
        LET filled == FilledPositions(msg.attachments, 1)
        IN /\ Len(ret.value) = Len(filled)
           /\ \A k \in 1..Len(filled) :
                ret.value[k] = << msg.attachments[filled[k]].filename,
                                  msg.attachments[filled[k]].content,
                                  msg.attachments[filled[k]].mimetype >>

\* Three attachments, the second with empty content between two different
\* ones with content: two triples, the first attachment's first.
C15_Witness ==
    /\ call.op = "extract_attachments"
    /\ Len(msg.attachments) = 3
    /\ msg.attachments[2].content = <<>>
    /\ msg.attachments[1].content \notin {None, <<>>}
    /\ msg.attachments[3].content \notin {None, <<>>}
    /\ msg.attachments[1] # msg.attachments[3]
    /\ Len(ret.value) = 2
    /\ ret.value[1][1] = msg.attachments[1].filename
    /\ ret.value[2][1] = msg.attachments[3].filename

-----------------------------------------------------------------------------
(* Claims about migration 0047, checked under SpecMigration, and under      *)
(* SpecStateFile where the state file may be damaged.                      *)

\* The links of table t to a row of m with handler 'AdminMorph'.
AdminMorphLinks(m, t) ==
    {l \in t : \E r \in m : r.id = l[2] /\ r.handler = "AdminMorph"}

\* C10: a forward run that cannot write the state file while a program is
\* linked to an AdminMorph row raises and changes no row and no link; any
\* other forward run deletes every AdminMorph row and every link to one.
C10_ForwardRaisesOrDeletes ==
    lastRun.op = "forward" =>
        IF lastRun.write # "ok" /\ AdminMorphLinks(lastRun.modules, lastRun.links) # {}
        THEN /\ lastRun.raised
             /\ modules = lastRun.modules
             /\ links = lastRun.links
        ELSE /\ ~lastRun.raised
             /\ modules = {m \in lastRun.modules : m.handler # "AdminMorph"}
             /\ links = lastRun.links \ AdminMorphLinks(lastRun.modules, lastRun.links)

\* A forward run that found two AdminMorph rows and a linked program, could
\* not write the file, and raised.
C10_Witness ==
    /\ lastRun.op = "forward"
    /\ lastRun.write # "ok"
    /\ lastRun.raised
    /\ Cardinality({m \in modules : m.handler = "AdminMorph"}) = 2
    /\ AdminMorphLinks(modules, links) # {}

\* C11: a reverse run that finds the state file missing, unreadable or
\* malformed (not JSON, or JSON that is not an object with a list of program
\* ids) does not raise, restores no link and leaves an AdminMorph row.
C11_BadStateFileRestoresNothing ==
    (lastRun.op = "reverse" /\ lastRun.file.kind # "json") =>
        /\ ~lastRun.raised
        /\ links = lastRun.links
        /\ AdminMorphRows # {}

\* The programs that table t links to a row of m with handler 'AdminMorph'.
AdminMorphPrograms(m, t) == {l[1] : l \in AdminMorphLinks(m, t)}

-----------------------------------------------------------------------------
(* Claims about migrations 0047 and 0048 together, checked under            *)
(* SpecMigrations.                                                          *)

\* The program ids the state file on disk lists.
RecordedIds ==
    IF stateFile.kind = "json"
    THEN {stateFile.program_ids[k] : k \in 1..Len(stateFile.program_ids)}
    ELSE {}

\* C18: as long as no write of the state file has failed, every program whose
\* link to an AdminMorph row a forward run deleted and no later reverse run
\* restored is listed in the state file.
C18_RemovedLinksRecorded ==
    ~writeFailed => removed \subseteq RecordedIds

=============================================================================
